---- MODULE Spec2Model ----
(***************************************************************************)
(* ESP32-ElegantOTA: the connectivity / provisioning lifecycle.            *)
(*                                                                         *)
(* The program is the Arduino sketch of src/unnamed/part_000 (setup, loop, *)
(* checkButton, heartbeat) driving the second version of src/src/OTA.h     *)
(* (lines 257-569: startConfigPortal, startWiFiConnection,                 *)
(* setupWebServerAndOTA, handleOTA).  disableWiFi() is called by           *)
(* checkButton but is defined in no file under src/.                       *)
(*                                                                         *)
(* The loop is one thread.  pc is its position:                            *)
(*   "checkButton"     about to call checkButton()       (part_000:145)    *)
(*   "disconnectDelay" in startWiFiConnection's delay after               *)
(*                     WiFi.disconnect(true)             (OTA.h:408)       *)
(*   "staModeDelay"    in its delay after WiFi.mode()    (OTA.h:412)       *)
(*   "connectWait"     in its wait loop                  (OTA.h:424-428)   *)
(*   "connectCheck"    at the test after the wait loop   (OTA.h:430)       *)
(*   "cleanupDelay"    in its delay after the clean-up                    *)
(*                     WiFi.disconnect(true)             (OTA.h:452)       *)
(*   "handleOTA"    about to call handleOTA()            (part_000:148)    *)
(*   "portal"       blocked in wifiManager.startConfigPortal (OTA.h:522)   *)
(*   "afterPortal"  startConfigPortal has returned       (OTA.h:525)       *)
(*   "wifiMonitor"  at the link monitor of handleOTA     (OTA.h:551)       *)
(*   "heartbeat"    about to call heartbeat()            (part_000:152)    *)
(*                                                                         *)
(* Time.  The code reads millis() only in differences millis() - stamp     *)
(* that it compares with a constant, so each stamp is kept as that         *)
(* difference.  millis() and the stamps are unsigned long, 32 bits wide,   *)
(* so a difference is the elapsed time modulo 2^32 ms.  sincePress         *)
(* (millis() - buttonPressStart) and, while an upload is in progress,      *)
(* sinceOtaProgress (millis() - ota_progress_millis) are kept as the exact *)
(* 32-bit value; such a value v is written as the integer with the same    *)
(* bit pattern in two's complement (v below 2^31, v - 2^32 from there on), *)
(* so that 2^32 - 950 is written -950.  sinceLastWiFiCheck                 *)
(* (millis() - lastWiFiCheck) saturates at the constant it is compared     *)
(* with: the monitor is evaluated in every loop iteration and restamps    *)
(* whenever the constant is reached, so the difference stays far below     *)
(* 2^32.  Time passes in the code's delay() calls, while the loop is       *)
(* blocked in the portal, and between loop iterations.                     *)
(***************************************************************************)
EXTENDS Integers, FiniteSets, Sequences, TLC

VARIABLES
    pc,                      \* position of the loop thread
    cmd,                     \* what the last checkButton() call classified
    buttonLow,               \* digitalRead(CONFIG_BUTTON_PIN) == LOW (the pin)
    sinceLow,                \* how long the pin has been low (ms), followed up to
                             \* BUTTON_PRESS_TIME; 0 while the pin is high
    buttonPressed,           \* part_000:23
    sincePress,              \* millis() - buttonPressStart (part_000:22)
    shouldStartConfigPortal, \* OTA.h:273
    wifiMode,                \* WiFi.getMode(): radio off, station, AP+station
    staBegun,                \* the station has been told to associate
    link,                    \* WiFi.status() == WL_CONNECTED
    credSaved,               \* wifiManager.getWiFiIsSaved()
    otaRegistered,           \* ElegantOTA.begin(&server) calls since the last stop
    serverListening,         \* server.begin() done and not stopped since
    portalSessions,          \* configuration portal sessions open
    portalTimeout,           \* the open session's timeout in seconds (0: none)
    portalElapsed,           \* time since the open session started
    attempts,                \* OTA.h:423 (local of startWiFiConnection)
    connectElapsed,          \* time spent in the last startWiFiConnection() call
    sinceLastWiFiCheck,      \* millis() - lastWiFiCheck (OTA.h:552)
    wasConnected,            \* OTA.h:553
    monitorLog,              \* last line the link monitor printed
    disabled,                \* disableWiFi() ran and no startWiFiConnection() since
    pressDuration,           \* part_000:47 (local of checkButton)
    commandsThisPress,       \* commands issued since the last sampled press edge
    otaState,                \* firmware upload: "idle", "updating", "rebooting"
    otaLog,                  \* last line the ElegantOTA callbacks printed
    sinceOtaProgress,        \* millis() - ota_progress_millis (OTA.h:270, 287)
    sinceOtaEnd              \* time spent in onOTAEnd's delay (OTA.h:299)

vars == <<pc, cmd, buttonLow, sinceLow, buttonPressed, sincePress,
          shouldStartConfigPortal, wifiMode, staBegun, link, credSaved,
          otaRegistered, serverListening, portalSessions, portalTimeout,
          portalElapsed, attempts, connectElapsed, sinceLastWiFiCheck, wasConnected,
          monitorLog, disabled, pressDuration, commandsThisPress, otaState,
          otaLog, sinceOtaProgress, sinceOtaEnd>>

----------------------------------------------------------------------------
(* Program constants *)

BUTTON_PRESS_TIME == 3000

DEBOUNCE_THRESHOLD == 50

WIFI_CHECK_INTERVAL == 5000

CONNECT_ATTEMPTS == 20

CONNECT_DELAY == 500

MODE_DELAY == 100

CLEANUP_DELAY == 500

PORTAL_TIMEOUT_S == 180

SETUP_DELAY == 1000

OTA_PROGRESS_INTERVAL == 1000

REBOOT_DELAY == 3000

(* Bounds of the model *)

MaxRegistrations == 3

\* the longest hold (ms) the loop is followed through while the button is
\* seen pressed
MaxHoldTime == 6000

\* the longest time (ms) an upload is followed through without a progress line
MaxStampAge == 3001

\* time that may pass between two loop iterations (ms)
LoopDeltas == {0, 1000, 3000}

\* time that may pass in one step while the loop is blocked in the portal (ms)
PortalDeltas == {60000}

----------------------------------------------------------------------------
(* Helpers *)

Min(a, b) == IF a < b THEN a ELSE b

PortalTimeoutMs == PORTAL_TIMEOUT_S * 1000

\* configureWiFiManager: wifiManager.setConfigPortalTimeout(180), called once
\* from setupOTA and by nothing else
ConfigPortalTimeout_Millis == PortalTimeoutMs

ConfigPortalTimeout == PORTAL_TIMEOUT_S

\* the largest integer below 2^31
MaxInt32 == (2 ^ 30 - 1) * 2 + 1

\* (v + d) modulo 2^32 for a 32-bit v and 0 <= d < 2^31: unsigned long
\* arithmetic, v and the result written in two's complement
Add32(v, d) ==
    IF d > 0 /\ v > MaxInt32 - d
    THEN (v - MaxInt32 - 1) + (d - MaxInt32 - 1)
    ELSE v + d

\* v >= k and v > k for a 32-bit unsigned v and 0 <= k < 2^31
AtLeast32(v, k) == v < 0 \/ v >= k

MoreThan32(v, k) == v < 0 \/ v > k

\* d milliseconds pass: what each running timer becomes
PressAfter(d) == IF buttonPressed THEN Add32(sincePress, d) ELSE sincePress

WiFiCheckAfter(d) == Min(sinceLastWiFiCheck + d, WIFI_CHECK_INTERVAL)

PortalAfter(d) == IF portalSessions > 0 THEN Min(portalElapsed + d, PortalTimeoutMs) ELSE portalElapsed

\* the pin's low time adds up over the steps in which time passes; it is
\* followed up to BUTTON_PRESS_TIME, the one length it is compared with
HeldAfter(d) == IF buttonLow THEN Min(sinceLow + d, BUTTON_PRESS_TIME) ELSE 0

\* the pin has stayed low through a LongHold's time
heldLong == buttonLow /\ sinceLow >= BUTTON_PRESS_TIME

\* with no upload in progress the stamp's age is followed up to the interval
\* it is compared with; beyond, it is not known
StampAgeUnknown == OTA_PROGRESS_INTERVAL + 1

OtaProgressAfter(d) ==
    IF otaState = "updating" THEN Add32(sinceOtaProgress, d)
    ELSE IF 0 <= sinceOtaProgress /\ sinceOtaProgress + d <= OTA_PROGRESS_INTERVAL
         THEN sinceOtaProgress + d
         ELSE StampAgeUnknown

OtaEndAfter(d) == IF otaState = "rebooting" THEN Min(sinceOtaEnd + d, REBOOT_DELAY) ELSE sinceOtaEnd

Elapse(d) ==
    /\ sincePress' = PressAfter(d)
    /\ sinceLastWiFiCheck' = WiFiCheckAfter(d)
    /\ portalElapsed' = PortalAfter(d)
    /\ sinceLow' = HeldAfter(d)
    /\ sinceOtaProgress' = OtaProgressAfter(d)
    /\ sinceOtaEnd' = OtaEndAfter(d)

NoTime == UNCHANGED <<sincePress, sinceLastWiFiCheck, portalElapsed, sinceLow,
                      sinceOtaProgress, sinceOtaEnd>>

\* the 32-bit differences stay within the bounds of the model when d ms pass
TimeBounded(d) ==
    /\ (buttonPressed /\ d > 0) => Add32(sincePress, d) <= MaxHoldTime
    /\ (otaState = "updating" /\ d > 0) => Add32(sinceOtaProgress, d) <= MaxStampAge

ButtonCommand_DebounceInclusive(d) ==
    IF AtLeast32(d, BUTTON_PRESS_TIME) THEN "LongHold"
    ELSE IF d >= DEBOUNCE_THRESHOLD THEN "ShortPress"
    ELSE "None"

\* checkButton's classification of a release with pressDuration d, an
\* unsigned long
ButtonCommand(d) ==
    IF AtLeast32(d, BUTTON_PRESS_TIME) THEN "LongHold"
    ELSE IF d > DEBOUNCE_THRESHOLD THEN "ShortPress"
    ELSE "None"

----------------------------------------------------------------------------
(* The provisioning state the flags and handles encode *)

\* the positions of the loop inside startWiFiConnection
ConnectPcs == {"disconnectDelay", "staModeDelay", "connectWait", "connectCheck",
               "cleanupDelay"}

ProvState ==
    IF pc \in ConnectPcs THEN "ConnectingSaved"
    ELSE IF portalSessions > 0 THEN "PortalActive"
    ELSE IF serverListening THEN "ServingUpdates"
    ELSE IF shouldStartConfigPortal THEN "ConnectingSaved"
    ELSE IF disabled THEN "Disabled"
    ELSE "Idle"

----------------------------------------------------------------------------
Init_AutoConnect ==
    /\ pc = "checkButton"
    /\ cmd = "None"
    /\ buttonLow = FALSE
    /\ sinceLow = 0
    /\ buttonPressed = FALSE
    /\ sincePress = 0
    /\ shouldStartConfigPortal = FALSE
    /\ wifiMode = "WIFI_STA"
    /\ staBegun = TRUE
    /\ link = FALSE
    /\ credSaved \in BOOLEAN
    /\ otaRegistered = 0
    /\ serverListening = FALSE
    /\ portalSessions = 0
    /\ portalTimeout = 0
    /\ portalElapsed = 0
    /\ attempts = 0
    /\ connectElapsed = 0
    /\ sinceLastWiFiCheck = SETUP_DELAY
    /\ wasConnected = FALSE
    /\ monitorLog = "none"
    /\ disabled = FALSE
    /\ pressDuration = 0
    /\ commandsThisPress = 0
    /\ otaState = "idle"
    /\ otaLog = "none"
    /\ sinceOtaProgress = SETUP_DELAY
    /\ sinceOtaEnd = 0

\* setup(): pins, delay(1000), setupOTA() = configureWiFiManager() and logs
Init ==
    /\ pc = "checkButton"
    /\ cmd = "None"
    /\ buttonLow = FALSE
    /\ sinceLow = 0
    /\ buttonPressed = FALSE
    /\ sincePress = 0
    /\ shouldStartConfigPortal = FALSE
    /\ wifiMode = "WIFI_OFF"
    /\ staBegun = FALSE
    /\ link = FALSE
    /\ credSaved \in BOOLEAN
    /\ otaRegistered = 0
    /\ serverListening = FALSE
    /\ portalSessions = 0
    /\ portalTimeout = 0
    /\ portalElapsed = 0
    /\ attempts = 0
    /\ connectElapsed = 0
    /\ sinceLastWiFiCheck = SETUP_DELAY
    /\ wasConnected = FALSE
    /\ monitorLog = "none"
    /\ disabled = FALSE
    /\ pressDuration = 0
    /\ commandsThisPress = 0
    /\ otaState = "idle"
    /\ otaLog = "none"
    /\ sinceOtaProgress = SETUP_DELAY
    /\ sinceOtaEnd = 0

----------------------------------------------------------------------------
(* The environment: the button pin and the radio link *)

PressButton ==
    /\ ~buttonLow
    /\ buttonLow' = TRUE
    /\ sinceLow' = 0
    /\ UNCHANGED <<pc, cmd, buttonPressed, sincePress, shouldStartConfigPortal,
                   wifiMode, staBegun, link, credSaved, otaRegistered,
                   serverListening, portalSessions, portalTimeout, portalElapsed, attempts,
                   connectElapsed, sinceLastWiFiCheck, wasConnected, monitorLog,
                   disabled>>
    /\ UNCHANGED <<pressDuration, commandsThisPress, otaState, otaLog, sinceOtaProgress, sinceOtaEnd>>

ReleaseButton ==
    /\ buttonLow
    /\ buttonLow' = FALSE
    /\ sinceLow' = 0
    /\ UNCHANGED <<pc, cmd, buttonPressed, sincePress, shouldStartConfigPortal,
                   wifiMode, staBegun, link, credSaved, otaRegistered,
                   serverListening, portalSessions, portalTimeout, portalElapsed, attempts,
                   connectElapsed, sinceLastWiFiCheck, wasConnected, monitorLog,
                   disabled>>
    /\ UNCHANGED <<pressDuration, commandsThisPress, otaState, otaLog, sinceOtaProgress, sinceOtaEnd>>

LinkUp ==
    /\ staBegun /\ wifiMode # "WIFI_OFF" /\ ~link
    /\ link' = TRUE
    /\ UNCHANGED <<pc, cmd, buttonLow, sinceLow, buttonPressed, sincePress,
                   shouldStartConfigPortal, wifiMode, staBegun, credSaved,
                   otaRegistered, serverListening, portalSessions, portalTimeout, portalElapsed,
                   attempts, connectElapsed, sinceLastWiFiCheck, wasConnected,
                   monitorLog, disabled>>
    /\ UNCHANGED <<pressDuration, commandsThisPress, otaState, otaLog, sinceOtaProgress, sinceOtaEnd>>

LinkDown ==
    /\ link
    /\ link' = FALSE
    /\ UNCHANGED <<pc, cmd, buttonLow, sinceLow, buttonPressed, sincePress,
                   shouldStartConfigPortal, wifiMode, staBegun, credSaved,
                   otaRegistered, serverListening, portalSessions, portalTimeout, portalElapsed,
                   attempts, connectElapsed, sinceLastWiFiCheck, wasConnected,
                   monitorLog, disabled>>
    /\ UNCHANGED <<pressDuration, commandsThisPress, otaState, otaLog, sinceOtaProgress, sinceOtaEnd>>

----------------------------------------------------------------------------
(* setupWebServerAndOTA: registers the routes and ElegantOTA on the server *)
(* and begins the server, with no test of whether that was done before     *)

\* as setupWebServerAndOTA without its server.begin()
SetupWebServerAndOTA_NoBegin ==
    /\ otaRegistered < MaxRegistrations
    /\ otaRegistered' = otaRegistered + 1
    /\ serverListening' = serverListening

SetupWebServerAndOTA ==
    /\ otaRegistered < MaxRegistrations
    /\ otaRegistered' = otaRegistered + 1
    /\ serverListening' = TRUE

(* The body of disableWiFi, which no file of the program defines: stop the  *)
(* Update Service, stop the portal if active, disconnect the radio, power  *)
(* the radio off.  That it is called is checkButton's doing.               *)

DisableWiFi ==
    /\ otaRegistered' = 0
    /\ serverListening' = FALSE
    /\ portalSessions' = 0
    /\ portalTimeout' = 0
    /\ portalElapsed' = 0
    /\ link' = FALSE
    /\ staBegun' = FALSE
    /\ wifiMode' = "WIFI_OFF"

----------------------------------------------------------------------------
(* checkButton *)

\* not pressed -> pressed
CheckButtonPress ==
    /\ pc = "checkButton"
    /\ buttonLow /\ ~buttonPressed
    /\ buttonPressed' = TRUE
    /\ sincePress' = 0
    /\ cmd' = "None"
    /\ pressDuration' = 0
    /\ commandsThisPress' = 0
    /\ pc' = "handleOTA"
    /\ UNCHANGED <<buttonLow, sinceLow, shouldStartConfigPortal, wifiMode,
                   staBegun, link, credSaved, otaRegistered, serverListening,
                   portalSessions, portalTimeout, portalElapsed, attempts, connectElapsed,
                   sinceLastWiFiCheck, wasConnected, monitorLog, disabled>>
    /\ UNCHANGED <<otaState, otaLog, sinceOtaProgress, sinceOtaEnd>>

\* as a handler that requests the portal as soon as the hold time is reached
CheckButtonSame_FiresWhileHeld ==
    /\ pc = "checkButton"
    /\ buttonLow = buttonPressed
    /\ cmd' = "None"
    /\ shouldStartConfigPortal' =
          (buttonPressed /\ AtLeast32(sincePress, BUTTON_PRESS_TIME))
    /\ pressDuration' = 0
    /\ UNCHANGED commandsThisPress
    /\ pc' = "handleOTA"
    /\ UNCHANGED <<buttonLow, sinceLow, buttonPressed, sincePress,
                   wifiMode, staBegun, link, credSaved,
                   otaRegistered, serverListening, portalSessions, portalTimeout, portalElapsed,
                   attempts, connectElapsed, sinceLastWiFiCheck, wasConnected,
                   monitorLog, disabled>>
    /\ UNCHANGED <<otaState, otaLog, sinceOtaProgress, sinceOtaEnd>>

\* the level has not changed since the last call
CheckButtonSame ==
    /\ pc = "checkButton"
    /\ buttonLow = buttonPressed
    /\ cmd' = "None"
    /\ pressDuration' = 0
    /\ UNCHANGED commandsThisPress
    /\ pc' = "handleOTA"
    /\ UNCHANGED <<buttonLow, sinceLow, buttonPressed, sincePress,
                   shouldStartConfigPortal, wifiMode, staBegun, link, credSaved,
                   otaRegistered, serverListening, portalSessions, portalTimeout, portalElapsed,
                   attempts, connectElapsed, sinceLastWiFiCheck, wasConnected,
                   monitorLog, disabled>>
    /\ UNCHANGED <<otaState, otaLog, sinceOtaProgress, sinceOtaEnd>>

\* pressed -> released within the debounce threshold: nothing is called
CheckButtonBounce ==
    /\ pc = "checkButton"
    /\ ~buttonLow /\ buttonPressed
    /\ ButtonCommand(sincePress) = "None"
    /\ buttonPressed' = FALSE
    /\ sincePress' = 0
    /\ cmd' = "None"
    /\ pressDuration' = sincePress
    /\ UNCHANGED commandsThisPress
    /\ pc' = "handleOTA"
    /\ UNCHANGED <<buttonLow, sinceLow, shouldStartConfigPortal, wifiMode,
                   staBegun, link, credSaved, otaRegistered, serverListening,
                   portalSessions, portalTimeout, portalElapsed, attempts, connectElapsed,
                   sinceLastWiFiCheck, wasConnected, monitorLog, disabled>>
    /\ UNCHANGED <<otaState, otaLog, sinceOtaProgress, sinceOtaEnd>>

CheckButtonShortPress_StaysPressed ==
    /\ pc = "checkButton"
    /\ ~buttonLow /\ buttonPressed
    /\ ButtonCommand(sincePress) = "ShortPress"
    /\ UNCHANGED buttonPressed
    /\ sincePress' = 0
    /\ cmd' = "ShortPress"
    /\ pressDuration' = sincePress
    /\ commandsThisPress' = commandsThisPress + 1
    /\ disabled' = TRUE
    /\ DisableWiFi
    /\ pc' = "handleOTA"
    /\ UNCHANGED <<buttonLow, sinceLow, shouldStartConfigPortal, credSaved,
                   attempts, connectElapsed, sinceLastWiFiCheck, wasConnected,
                   monitorLog>>
    /\ UNCHANGED <<otaState, otaLog, sinceOtaProgress, sinceOtaEnd>>

\* pressed -> released, a click: the call of disableWiFi() and what that
\* function does
CheckButtonShortPress ==
    /\ pc = "checkButton"
    /\ ~buttonLow /\ buttonPressed
    /\ ButtonCommand(sincePress) = "ShortPress"
    /\ buttonPressed' = FALSE
    /\ sincePress' = 0
    /\ cmd' = "ShortPress"
    /\ pressDuration' = sincePress
    /\ commandsThisPress' = commandsThisPress + 1
    /\ disabled' = TRUE
    /\ DisableWiFi
    /\ pc' = "handleOTA"
    /\ UNCHANGED <<buttonLow, sinceLow, shouldStartConfigPortal, credSaved,
                   attempts, connectElapsed, sinceLastWiFiCheck, wasConnected,
                   monitorLog>>
    /\ UNCHANGED <<otaState, otaLog, sinceOtaProgress, sinceOtaEnd>>

\* pressed -> released, a hold: startConfigPortal(), which sets the flag and
\* enters startWiFiConnection() up to its first delay: WiFi.disconnect(true)
CheckButtonLongHold ==
    /\ pc = "checkButton"
    /\ ~buttonLow /\ buttonPressed
    /\ ButtonCommand(sincePress) = "LongHold"
    /\ buttonPressed' = FALSE
    /\ cmd' = "LongHold"
    /\ pressDuration' = sincePress
    /\ commandsThisPress' = commandsThisPress + 1
    /\ shouldStartConfigPortal' = TRUE
    /\ wifiMode' = "WIFI_OFF"
    /\ staBegun' = FALSE
    /\ link' = FALSE
    /\ disabled' = FALSE
    /\ attempts' = 0
    /\ connectElapsed' = 0
    /\ sincePress' = 0
    /\ pc' = "disconnectDelay"
    /\ UNCHANGED <<buttonLow, sinceLow, credSaved, otaRegistered, serverListening,
                   portalSessions, portalTimeout, portalElapsed,
                   sinceLastWiFiCheck, wasConnected, monitorLog>>
    /\ UNCHANGED <<otaState, otaLog, sinceOtaProgress, sinceOtaEnd>>

----------------------------------------------------------------------------
(* startWiFiConnection, from its first delay on *)

\* as startWiFiConnection without its WiFi.mode(WIFI_STA)
DisconnectDelayDone_NoStationMode ==
    /\ pc = "disconnectDelay"
    /\ Elapse(MODE_DELAY)
    /\ connectElapsed' = connectElapsed + MODE_DELAY
    /\ UNCHANGED wifiMode
    /\ pc' = "staModeDelay"
    /\ UNCHANGED <<cmd, buttonLow, buttonPressed, shouldStartConfigPortal,
                   staBegun, link, credSaved, otaRegistered, serverListening,
                   portalSessions, portalTimeout, attempts, wasConnected,
                   monitorLog, disabled>>
    /\ UNCHANGED <<pressDuration, commandsThisPress, otaState, otaLog>>

\* the first delay(100) returns: WiFi.mode(WIFI_STA)
DisconnectDelayDone ==
    /\ pc = "disconnectDelay"
    /\ Elapse(MODE_DELAY)
    /\ connectElapsed' = connectElapsed + MODE_DELAY
    /\ wifiMode' = "WIFI_STA"
    /\ pc' = "staModeDelay"
    /\ UNCHANGED <<cmd, buttonLow, buttonPressed, shouldStartConfigPortal,
                   staBegun, link, credSaved, otaRegistered, serverListening,
                   portalSessions, portalTimeout, attempts, wasConnected,
                   monitorLog, disabled>>
    /\ UNCHANGED <<pressDuration, commandsThisPress, otaState, otaLog>>

\* the second delay(100) returns: with a saved credential WiFi.begin() and the
\* wait loop, without one the clean-up WiFi.disconnect(true)
StaModeDelayDone ==
    /\ pc = "staModeDelay"
    /\ Elapse(MODE_DELAY)
    /\ connectElapsed' = connectElapsed + MODE_DELAY
    /\ attempts' = 0
    /\ IF credSaved
       THEN /\ staBegun' = TRUE
            /\ pc' = "connectWait"
            /\ UNCHANGED <<wifiMode, link>>
       ELSE /\ wifiMode' = "WIFI_OFF"
            /\ staBegun' = FALSE
            /\ link' = FALSE
            /\ pc' = "cleanupDelay"
    /\ UNCHANGED <<cmd, buttonLow, buttonPressed, shouldStartConfigPortal,
                   credSaved, otaRegistered, serverListening, portalSessions,
                   portalTimeout, wasConnected, monitorLog, disabled>>
    /\ UNCHANGED <<pressDuration, commandsThisPress, otaState, otaLog>>

\* as the wait loop without its attempt count
ConnectWaitStep_Unbounded ==
    /\ pc = "connectWait"
    /\ IF ~link
       THEN /\ attempts' = attempts + 1
            /\ connectElapsed' = connectElapsed + CONNECT_DELAY
            /\ Elapse(CONNECT_DELAY)
            /\ pc' = "connectWait"
       ELSE /\ pc' = "connectCheck"
            /\ NoTime
            /\ UNCHANGED <<attempts, connectElapsed>>
    /\ UNCHANGED <<cmd, buttonLow, buttonPressed, shouldStartConfigPortal,
                   wifiMode, staBegun, link, credSaved, otaRegistered,
                   serverListening, portalSessions, portalTimeout, wasConnected, monitorLog,
                   disabled>>
    /\ UNCHANGED <<pressDuration, commandsThisPress, otaState, otaLog>>

\* one evaluation of the while condition, and the body if it holds
ConnectWaitStep ==
    /\ pc = "connectWait"
    /\ IF ~link /\ attempts < CONNECT_ATTEMPTS
       THEN /\ attempts' = attempts + 1
            /\ connectElapsed' = connectElapsed + CONNECT_DELAY
            /\ Elapse(CONNECT_DELAY)
            /\ pc' = "connectWait"
       ELSE /\ pc' = "connectCheck"
            /\ NoTime
            /\ UNCHANGED <<attempts, connectElapsed>>
    /\ UNCHANGED <<cmd, buttonLow, buttonPressed, shouldStartConfigPortal,
                   wifiMode, staBegun, link, credSaved, otaRegistered,
                   serverListening, portalSessions, portalTimeout, wasConnected, monitorLog,
                   disabled>>
    /\ UNCHANGED <<pressDuration, commandsThisPress, otaState, otaLog>>

\* connected: start the server and return
ConnectCheckConnected ==
    /\ pc = "connectCheck"
    /\ link
    /\ SetupWebServerAndOTA
    /\ attempts' = 0
    /\ pc' = "handleOTA"
    /\ NoTime
    /\ UNCHANGED <<cmd, buttonLow, buttonPressed, shouldStartConfigPortal,
                   wifiMode, staBegun, link, credSaved, portalSessions, portalTimeout,
                   connectElapsed, wasConnected, monitorLog, disabled>>
    /\ UNCHANGED <<pressDuration, commandsThisPress, otaState, otaLog>>

\* not connected: the clean-up WiFi.disconnect(true)
ConnectCheckFailed ==
    /\ pc = "connectCheck"
    /\ ~link
    /\ wifiMode' = "WIFI_OFF"
    /\ staBegun' = FALSE
    /\ attempts' = 0
    /\ pc' = "cleanupDelay"
    /\ NoTime
    /\ UNCHANGED <<cmd, buttonLow, buttonPressed, shouldStartConfigPortal, link,
                   credSaved, otaRegistered, serverListening, portalSessions,
                   portalTimeout, connectElapsed, wasConnected, monitorLog,
                   disabled>>
    /\ UNCHANGED <<pressDuration, commandsThisPress, otaState, otaLog>>

\* the delay(500) of the clean-up returns: ask the main loop for the portal
CleanupDelayDone ==
    /\ pc = "cleanupDelay"
    /\ Elapse(CLEANUP_DELAY)
    /\ connectElapsed' = connectElapsed + CLEANUP_DELAY
    /\ shouldStartConfigPortal' = TRUE
    /\ pc' = "handleOTA"
    /\ UNCHANGED <<cmd, buttonLow, buttonPressed, wifiMode, staBegun, link,
                   credSaved, otaRegistered, serverListening, portalSessions,
                   portalTimeout, attempts, wasConnected, monitorLog, disabled>>
    /\ UNCHANGED <<pressDuration, commandsThisPress, otaState, otaLog>>

----------------------------------------------------------------------------
(* handleOTA *)

\* as the test with its condition dropped
PortalRequested_Always == TRUE

\* as the test never taken
PortalRequested_Never == FALSE

\* the test that guards the portal block
PortalRequested == shouldStartConfigPortal

\* as wifiManager.setConfigPortalBlocking(false)
ConfigPortalBlocking_Off == FALSE

\* wifiManager.setConfigPortalBlocking(true)
ConfigPortalBlocking == TRUE

\* as the portal block with the call of startConfigPortal left out
HandleOTAStartPortal_KeepFlag ==
    /\ pc = "handleOTA"
    /\ PortalRequested
    /\ UNCHANGED shouldStartConfigPortal
    /\ portalSessions' = portalSessions + 1
    /\ portalTimeout' = ConfigPortalTimeout
    /\ portalElapsed' = 0
    /\ wifiMode' = "WIFI_AP_STA"
    /\ pc' = IF ConfigPortalBlocking THEN "portal" ELSE "wifiMonitor"
    /\ UNCHANGED <<cmd, buttonLow, sinceLow, buttonPressed, sincePress, staBegun,
                   link, credSaved, otaRegistered, serverListening, attempts,
                   connectElapsed, sinceLastWiFiCheck, wasConnected, monitorLog,
                   disabled>>
    /\ UNCHANGED <<pressDuration, commandsThisPress, otaState, otaLog, sinceOtaProgress, sinceOtaEnd>>

HandleOTAStartPortal_NoStart ==
    /\ pc = "handleOTA"
    /\ shouldStartConfigPortal
    /\ shouldStartConfigPortal' = FALSE
    /\ pc' = "afterPortal"
    /\ UNCHANGED <<cmd, buttonLow, sinceLow, buttonPressed, sincePress, wifiMode,
                   staBegun, link, credSaved, otaRegistered, serverListening,
                   portalSessions, portalTimeout, portalElapsed, attempts, connectElapsed,
                   sinceLastWiFiCheck, wasConnected, monitorLog, disabled>>
    /\ UNCHANGED <<pressDuration, commandsThisPress, otaState, otaLog, sinceOtaProgress, sinceOtaEnd>>

\* the flag is set: clear it and start the portal
HandleOTAStartPortal ==
    /\ pc = "handleOTA"
    /\ PortalRequested
    /\ shouldStartConfigPortal' = FALSE
    /\ portalSessions' = portalSessions + 1
    /\ portalTimeout' = ConfigPortalTimeout
    /\ portalElapsed' = 0
    /\ wifiMode' = "WIFI_AP_STA"
    /\ pc' = IF ConfigPortalBlocking THEN "portal" ELSE "wifiMonitor"
    /\ UNCHANGED <<cmd, buttonLow, sinceLow, buttonPressed, sincePress, staBegun,
                   link, credSaved, otaRegistered, serverListening, attempts,
                   connectElapsed, sinceLastWiFiCheck, wasConnected, monitorLog,
                   disabled>>
    /\ UNCHANGED <<pressDuration, commandsThisPress, otaState, otaLog, sinceOtaProgress, sinceOtaEnd>>

\* the flag is clear: straight to the link monitor
HandleOTANoPortal ==
    /\ pc = "handleOTA"
    /\ ~PortalRequested
    /\ pc' = "wifiMonitor"
    /\ UNCHANGED <<cmd, buttonLow, sinceLow, buttonPressed, sincePress,
                   shouldStartConfigPortal, wifiMode, staBegun, link, credSaved,
                   otaRegistered, serverListening, portalSessions, portalTimeout, portalElapsed,
                   attempts, connectElapsed, sinceLastWiFiCheck, wasConnected,
                   monitorLog, disabled>>
    /\ UNCHANGED <<pressDuration, commandsThisPress, otaState, otaLog, sinceOtaProgress, sinceOtaEnd>>

\* as the end of the portal block with the test of WiFi.status() dropped
HandleOTAAfterPortal_NoLinkTest ==
    /\ pc = "afterPortal"
    /\ SetupWebServerAndOTA
    /\ pc' = "wifiMonitor"
    /\ UNCHANGED <<cmd, buttonLow, sinceLow, buttonPressed, sincePress,
                   shouldStartConfigPortal, wifiMode, staBegun, link, credSaved,
                   portalSessions, portalTimeout, portalElapsed, attempts, connectElapsed,
                   sinceLastWiFiCheck, wasConnected, monitorLog, disabled>>
    /\ UNCHANGED <<pressDuration, commandsThisPress, otaState, otaLog, sinceOtaProgress, sinceOtaEnd>>

\* the portal has ended: start the server if the link is up
HandleOTAAfterPortal ==
    /\ pc = "afterPortal"
    /\ IF link
       THEN SetupWebServerAndOTA
       ELSE UNCHANGED <<otaRegistered, serverListening>>
    /\ pc' = "wifiMonitor"
    /\ UNCHANGED <<cmd, buttonLow, sinceLow, buttonPressed, sincePress,
                   shouldStartConfigPortal, wifiMode, staBegun, link, credSaved,
                   portalSessions, portalTimeout, portalElapsed, attempts, connectElapsed,
                   sinceLastWiFiCheck, wasConnected, monitorLog, disabled>>
    /\ UNCHANGED <<pressDuration, commandsThisPress, otaState, otaLog, sinceOtaProgress, sinceOtaEnd>>

\* as the monitor sampling on every call
WiFiCheckDue_EveryPoll == TRUE

\* if (millis() - lastWiFiCheck >= 5000)
WiFiCheckDue == sinceLastWiFiCheck >= WIFI_CHECK_INTERVAL

\* as a monitor that calls WiFi.begin() when it finds the link lost
WiFiMonitor_Reconnects ==
    /\ pc = "wifiMonitor"
    /\ IF WiFiCheckDue
       THEN /\ monitorLog' = IF wasConnected /\ ~link THEN "lost"
                             ELSE IF ~wasConnected /\ link THEN "restored"
                             ELSE monitorLog
            /\ wasConnected' = link
            /\ sinceLastWiFiCheck' = 0
            /\ staBegun' = (staBegun \/ (wasConnected /\ ~link))
       ELSE UNCHANGED <<monitorLog, wasConnected, sinceLastWiFiCheck, staBegun>>
    /\ pc' = "heartbeat"
    /\ UNCHANGED <<cmd, buttonLow, sinceLow, buttonPressed, sincePress,
                   shouldStartConfigPortal, wifiMode, link, credSaved,
                   otaRegistered, serverListening, portalSessions, portalTimeout, portalElapsed,
                   attempts, connectElapsed, disabled>>
    /\ UNCHANGED <<pressDuration, commandsThisPress, otaState, otaLog, sinceOtaProgress, sinceOtaEnd>>

\* the 5-second link monitor
WiFiMonitor ==
    /\ pc = "wifiMonitor"
    /\ IF WiFiCheckDue
       THEN /\ monitorLog' = IF wasConnected /\ ~link THEN "lost"
                             ELSE IF ~wasConnected /\ link THEN "restored"
                             ELSE monitorLog
            /\ wasConnected' = link
            /\ sinceLastWiFiCheck' = 0
       ELSE UNCHANGED <<monitorLog, wasConnected, sinceLastWiFiCheck>>
    /\ pc' = "heartbeat"
    /\ UNCHANGED <<cmd, buttonLow, sinceLow, buttonPressed, sincePress,
                   shouldStartConfigPortal, wifiMode, staBegun, link, credSaved,
                   otaRegistered, serverListening, portalSessions, portalTimeout, portalElapsed,
                   attempts, connectElapsed, disabled>>
    /\ UNCHANGED <<pressDuration, commandsThisPress, otaState, otaLog, sinceOtaProgress, sinceOtaEnd>>

----------------------------------------------------------------------------
(* The portal session (WiFiManager), as the sketch configures it *)

PortalOpen == portalSessions > 0 /\ (ConfigPortalBlocking => pc = "portal")

\* the operator submits credentials; the station connects or not
PortalSave ==
    /\ PortalOpen
    /\ \E ok \in BOOLEAN :
          /\ credSaved' = TRUE
          /\ link' = ok
          /\ staBegun' = ok
    /\ UNCHANGED <<pc, cmd, buttonLow, sinceLow, buttonPressed, sincePress,
                   shouldStartConfigPortal, wifiMode, otaRegistered,
                   serverListening, portalSessions, portalTimeout, portalElapsed, attempts,
                   connectElapsed, sinceLastWiFiCheck, wasConnected, monitorLog,
                   disabled>>
    /\ UNCHANGED <<pressDuration, commandsThisPress, otaState, otaLog, sinceOtaProgress, sinceOtaEnd>>

\* the operator uses the "erase" menu item
PortalErase ==
    /\ PortalOpen
    /\ credSaved
    /\ credSaved' = FALSE
    /\ link' = FALSE
    /\ staBegun' = FALSE
    /\ UNCHANGED <<pc, cmd, buttonLow, sinceLow, buttonPressed, sincePress,
                   shouldStartConfigPortal, wifiMode, otaRegistered,
                   serverListening, portalSessions, portalTimeout, portalElapsed, attempts,
                   connectElapsed, sinceLastWiFiCheck, wasConnected, monitorLog,
                   disabled>>
    /\ UNCHANGED <<pressDuration, commandsThisPress, otaState, otaLog, sinceOtaProgress, sinceOtaEnd>>

\* time passes while the session is open
PortalTick ==
    /\ PortalOpen
    /\ portalElapsed < portalTimeout * 1000
    /\ \E d \in PortalDeltas : Elapse(d)
    /\ UNCHANGED <<pc, cmd, buttonLow, buttonPressed, shouldStartConfigPortal,
                   wifiMode, staBegun, link, credSaved, otaRegistered,
                   serverListening, portalSessions, portalTimeout, attempts, connectElapsed,
                   wasConnected, monitorLog, disabled>>
    /\ UNCHANGED <<pressDuration, commandsThisPress, otaState, otaLog>>

\* the session ends: timeout, exit, or a failure to start
PortalEnd ==
    /\ PortalOpen
    /\ portalSessions' = portalSessions - 1
    /\ portalTimeout' = IF portalSessions = 1 THEN 0 ELSE portalTimeout
    /\ portalElapsed' = 0
    /\ \E m \in (IF link THEN {"WIFI_STA"} ELSE {"WIFI_STA", "WIFI_OFF"}) :
          /\ wifiMode' = m
          /\ staBegun' = (staBegun /\ m # "WIFI_OFF")
    /\ pc' = IF pc = "portal" THEN "afterPortal" ELSE pc
    /\ UNCHANGED <<cmd, buttonLow, sinceLow, buttonPressed, sincePress,
                   shouldStartConfigPortal, link, credSaved, otaRegistered,
                   serverListening, attempts, connectElapsed, sinceLastWiFiCheck,
                   wasConnected, monitorLog, disabled>>
    /\ UNCHANGED <<pressDuration, commandsThisPress, otaState, otaLog, sinceOtaProgress, sinceOtaEnd>>

----------------------------------------------------------------------------
(* heartbeat, and the time one loop iteration takes *)

Heartbeat ==
    /\ pc = "heartbeat"
    /\ \E d \in LoopDeltas : TimeBounded(d) /\ Elapse(d)
    /\ pc' = "checkButton"
    /\ UNCHANGED <<cmd, buttonLow, buttonPressed, shouldStartConfigPortal,
                   wifiMode, staBegun, link, credSaved, otaRegistered,
                   serverListening, portalSessions, portalTimeout, attempts, connectElapsed,
                   wasConnected, monitorLog, disabled>>
    /\ UNCHANGED <<pressDuration, commandsThisPress, otaState, otaLog>>

----------------------------------------------------------------------------
Next ==
    \/ PressButton
    \/ ReleaseButton
    \/ LinkUp
    \/ LinkDown
    \/ CheckButtonPress
    \/ CheckButtonSame
    \/ CheckButtonBounce
    \/ CheckButtonShortPress
    \/ CheckButtonLongHold
    \/ DisconnectDelayDone
    \/ StaModeDelayDone
    \/ ConnectWaitStep
    \/ ConnectCheckConnected
    \/ ConnectCheckFailed
    \/ CleanupDelayDone
    \/ HandleOTAStartPortal
    \/ HandleOTANoPortal
    \/ HandleOTAAfterPortal
    \/ WiFiMonitor
    \/ PortalSave
    \/ PortalErase
    \/ PortalTick
    \/ PortalEnd
    \/ Heartbeat

Spec == Init /\ [][Next]_vars

\* The loop thread is always scheduled: when it is in startWiFiConnection's
\* wait loop, the next evaluation of the while condition is taken
SpecConnect == Init /\ [][Next]_vars /\ WF_vars(ConnectWaitStep)

----------------------------------------------------------------------------
(* The button seen pressed some time ago.  A checkButton() call saw the pin  *)
(* low, and the loop has come round to checkButton again with                *)
(* millis() - buttonPressStart = d: d around the two thresholds, which the   *)
(* coarse loop periods of LoopDeltas never produce, and d a little below     *)
(* 2^32 (the button held down for 49.7 days), from where the difference      *)
(* wraps to the debounce threshold in the next loop period.                  *)

HoldSamples == {0, DEBOUNCE_THRESHOLD, DEBOUNCE_THRESHOLD + 1,
                BUTTON_PRESS_TIME - 1, BUTTON_PRESS_TIME,
                DEBOUNCE_THRESHOLD - 1000, DEBOUNCE_THRESHOLD + 1 - 1000}

InitButton ==
    /\ pc = "checkButton"
    /\ cmd = "None"
    /\ buttonLow \in BOOLEAN
    /\ buttonPressed = TRUE
    /\ sincePress \in HoldSamples
    /\ sinceLow = IF ~buttonLow THEN 0
                  ELSE IF AtLeast32(sincePress, BUTTON_PRESS_TIME) THEN BUTTON_PRESS_TIME
                  ELSE sincePress
    /\ shouldStartConfigPortal = FALSE
    /\ wifiMode = "WIFI_OFF"
    /\ staBegun = FALSE
    /\ link = FALSE
    /\ credSaved \in BOOLEAN
    /\ otaRegistered = 0
    /\ serverListening = FALSE
    /\ portalSessions = 0
    /\ portalTimeout = 0
    /\ portalElapsed = 0
    /\ attempts = 0
    /\ connectElapsed = 0
    /\ sinceLastWiFiCheck = IF sincePress < 0 THEN 0 ELSE SETUP_DELAY + sincePress
    /\ wasConnected = FALSE
    /\ monitorLog = "none"
    /\ disabled = FALSE
    /\ pressDuration = 0
    /\ commandsThisPress = 0
    /\ otaState = "idle"
    /\ otaLog = "none"
    /\ sinceOtaProgress = IF sincePress = 0 THEN SETUP_DELAY ELSE StampAgeUnknown
    /\ sinceOtaEnd = 0

SpecButton == InitButton /\ [][Next]_vars

----------------------------------------------------------------------------
(* The claims *)

\* the bounded connect-attempt window: 20 polls of 500 ms
ConnectWindow == CONNECT_ATTEMPTS * CONNECT_DELAY

\* C1: once checkButton has classified a ShortPress, and until the next call
\* of checkButton, the state is Disabled, no Update Service is registered or
\* listening and no portal session is open
C1_ShortPressDisables ==
    cmd = "ShortPress" =>
        /\ ProvState = "Disabled"
        /\ otaRegistered = 0 /\ ~serverListening
        /\ portalSessions = 0

\* a ShortPress has been handled and its loop iteration has reached its end,
\* the link monitor having seen the link up before
C1_Witness ==
    /\ cmd = "ShortPress" /\ pc = "heartbeat"
    /\ wasConnected /\ credSaved
    /\ ProvState = "Disabled"

\* C2: the Update Service is never begun or registered a second time while
\* it is running
C2_SingleStart == otaRegistered <= 1

\* C3: while a portal session is open the poll function is not blocked in it
C3_PollNotBlockedByPortal == portalSessions > 0 => pc # "portal"

\* C4: the step of startWiFiConnection that finds the link connected after
\* the wait loop leaves ConnectingSaved for ServingUpdates with the Update
\* Service registered and listening, within the connect window
C4_SavedConnectServes ==
    [][(pc = "connectCheck" /\ link /\ pc' = "handleOTA") =>
          /\ ProvState = "ConnectingSaved"
          /\ ProvState' = "ServingUpdates"
          /\ serverListening' /\ otaRegistered' >= 1
          /\ connectElapsed' <= 2 * MODE_DELAY + ConnectWindow]_vars

\* startWiFiConnection has just returned from a successful saved-credential
\* connect
C4_Witness ==
    /\ pc = "handleOTA" /\ cmd = "LongHold"
    /\ credSaved /\ link
    /\ serverListening /\ otaRegistered = 1

\* C5: when a LongHold's saved-credential connect has succeeded, no portal
\* start request is pending as the poll function is entered
C5_NoPortalAfterSavedConnect ==
    (pc = "handleOTA" /\ cmd = "LongHold" /\ link) => ~shouldStartConfigPortal

\* C6: a LongHold taken in Idle or Disabled with no saved credential enters
\* ConnectingSaved and skips the wait loop (once the credential has been
\* looked up the next stop is the clean-up), and ConnectingSaved with no
\* saved credential and no Update Service (there is none in Idle or
\* Disabled) is left only for PortalActive, within the connect window
C6_NoCredentialLeadsToPortal ==
    [][/\ (/\ pc = "checkButton" /\ pc' # "checkButton" /\ cmd' = "LongHold"
           /\ ProvState \in {"Idle", "Disabled"} /\ ~credSaved)
          => (ProvState' = "ConnectingSaved" /\ pc' = "disconnectDelay")
       /\ (pc = "staModeDelay" /\ ~credSaved /\ pc' # pc)
          => (pc' = "cleanupDelay" /\ attempts' = 0)
       /\ (/\ ProvState = "ConnectingSaved" /\ ~credSaved /\ ~serverListening
           /\ ProvState' # "ConnectingSaved")
          => (ProvState' = "PortalActive" /\ connectElapsed' <= ConnectWindow)]_vars

\* the portal has been opened by a LongHold that found no saved credential
C6_Witness ==
    /\ ProvState = "PortalActive" /\ cmd = "LongHold"
    /\ ~credSaved /\ ~serverListening
    /\ connectElapsed = 2 * MODE_DELAY + CLEANUP_DELAY
    /\ portalElapsed = 0

\* C7: time does not pass in an open portal session that has the link
\* connected without the Update Service being started by then
C7_ServesWhilePortalOpen ==
    [][(portalSessions > 0 /\ link /\ portalElapsed' > portalElapsed)
          => serverListening']_vars

\* C8: when the link monitor reports the link restored after having reported
\* it lost, with the Update Service running, the service is running exactly
\* once
C8_RestoredRunsOnce ==
    [][(/\ pc = "wifiMonitor" /\ monitorLog = "lost" /\ monitorLog' = "restored"
        /\ serverListening)
          => (serverListening' /\ otaRegistered' = 1)]_vars

\* C9 as stated: ServingUpdates has an active link, PortalActive has the
\* portal acquired, Disabled has the radio off
C9_StateResources ==
    /\ ProvState = "ServingUpdates" => link
    /\ ProvState = "PortalActive" => portalSessions > 0
    /\ ProvState = "Disabled" => wifiMode = "WIFI_OFF"

\* C9 as amended: in ServingUpdates the Update Service is registered and
\* listening and every start of it was made with the link reported active
\* (the link may drop afterwards); PortalActive has the portal acquired and
\* the access point up; Disabled has the radio off and no link
C9_StateResourcesAmended ==
    /\ [](/\ ProvState = "ServingUpdates" => (serverListening /\ otaRegistered >= 1)
          /\ ProvState = "PortalActive" => (portalSessions > 0 /\ wifiMode = "WIFI_AP_STA")
          /\ ProvState = "Disabled" => (wifiMode = "WIFI_OFF" /\ ~link))
    /\ [][otaRegistered' > otaRegistered => (link /\ link')]_vars

\* ServingUpdates with the link down, seen by the link monitor
C9_Witness ==
    /\ ProvState = "ServingUpdates" /\ ~link
    /\ monitorLog = "lost" /\ pc = "heartbeat"

\* C10: never two portal sessions, and while a session stays open no step
\* touches the radio mode, the Update Service, the session or the request
\* flag (no LongHold is taken)
C10_OnePortalSession ==
    /\ [](portalSessions <= 1)
    /\ [][(portalSessions > 0 /\ portalSessions' > 0) =>
             UNCHANGED <<wifiMode, otaRegistered, serverListening,
                         portalSessions, shouldStartConfigPortal>>]_vars

\* a session is open and the button has been held down through a LongHold's
\* time without checkButton having seen it
C10_Witness ==
    /\ portalSessions = 1 /\ pc = "portal"
    /\ buttonLow /\ heldLong /\ ~buttonPressed

----------------------------------------------------------------------------
(* A firmware upload.  The ElegantOTA callbacks are registered on the       *)
(* AsyncWebServer (OTA.h:472-477).  loop() never services that server (it   *)
(* calls checkButton, handleOTA and heartbeat only), so the callbacks are   *)
(* steps of the server's own context, interleaved with the steps of the     *)
(* loop; the delay() of onOTAEnd suspends the callback, not the loop.       *)

\* time that may pass between two events of an upload (ms)
OtaDeltas == {OTA_PROGRESS_INTERVAL, OTA_PROGRESS_INTERVAL + 1}

LifecycleVars == <<pc, cmd, buttonLow, sinceLow, buttonPressed, sincePress,
                   shouldStartConfigPortal, wifiMode, staBegun, link, credSaved,
                   otaRegistered, serverListening, portalSessions, portalTimeout,
                   portalElapsed, attempts, connectElapsed, sinceLastWiFiCheck,
                   wasConnected, monitorLog, disabled, pressDuration,
                   commandsThisPress>>

\* a client can reach the update endpoint
OtaReachable == serverListening /\ link

\* what millis() - ota_progress_millis may be when an upload starts with the
\* stamp older than the interval: any 32-bit value; these are just under
\* 2^32, inside the interval, at it and beyond it
StampAges == {0 - OTA_PROGRESS_INTERVAL \div 2, OTA_PROGRESS_INTERVAL \div 2,
              OTA_PROGRESS_INTERVAL, OTA_PROGRESS_INTERVAL + 1}

\* onOTAStart; from here on the stamp's age is followed exactly
OnOTAStart ==
    /\ otaState = "idle" /\ OtaReachable
    /\ otaState' = "updating"
    /\ otaLog' = "started"
    /\ IF sinceOtaProgress = StampAgeUnknown
       THEN sinceOtaProgress' \in StampAges
       ELSE UNCHANGED sinceOtaProgress
    /\ UNCHANGED <<LifecycleVars, sinceOtaEnd>>

\* onOTAProgress: millis() - ota_progress_millis > 1000
ProgressDue_Inclusive == AtLeast32(sinceOtaProgress, OTA_PROGRESS_INTERVAL)

ProgressDue == MoreThan32(sinceOtaProgress, OTA_PROGRESS_INTERVAL)

\* onOTAProgress
OnOTAProgress ==
    /\ otaState = "updating"
    /\ IF ProgressDue
       THEN /\ sinceOtaProgress' = 0
            /\ otaLog' = "progress"
       ELSE UNCHANGED <<sinceOtaProgress, otaLog>>
    /\ UNCHANGED <<LifecycleVars, otaState, sinceOtaEnd>>

\* onOTAEnd(false)
OnOTAEndFailure ==
    /\ otaState = "updating"
    /\ otaState' = "idle"
    /\ otaLog' = "failed"
    /\ UNCHANGED <<LifecycleVars, sinceOtaProgress, sinceOtaEnd>>

\* onOTAEnd(true), up to its delay(3000)
OnOTAEndSuccess ==
    /\ otaState = "updating"
    /\ otaState' = "rebooting"
    /\ otaLog' = "finished"
    /\ sinceOtaEnd' = 0
    /\ UNCHANGED <<LifecycleVars, sinceOtaProgress>>

\* onOTAEnd's delay(3000) has returned
RestartDue == sinceOtaEnd >= REBOOT_DELAY

\* ESP.restart(): the program starts again, millis() and the globals at
\* their initial values, at the top of setup(); the stored credential and
\* the button pin are what they were
Restart ==
    /\ otaState = "rebooting"
    /\ RestartDue
    /\ pc' = "setupDelay"
    /\ cmd' = "None"
    /\ buttonPressed' = FALSE
    /\ sincePress' = 0
    /\ shouldStartConfigPortal' = FALSE
    /\ wifiMode' = "WIFI_OFF"
    /\ staBegun' = FALSE
    /\ link' = FALSE
    /\ otaRegistered' = 0
    /\ serverListening' = FALSE
    /\ portalSessions' = 0
    /\ portalTimeout' = 0
    /\ portalElapsed' = 0
    /\ attempts' = 0
    /\ connectElapsed' = 0
    /\ sinceLastWiFiCheck' = 0
    /\ wasConnected' = FALSE
    /\ monitorLog' = "none"
    /\ disabled' = FALSE
    /\ pressDuration' = 0
    /\ commandsThisPress' = 0
    /\ otaState' = "idle"
    /\ otaLog' = "none"
    /\ sinceOtaProgress' = 0
    /\ sinceOtaEnd' = 0
    /\ UNCHANGED <<buttonLow, sinceLow, credSaved>>

\* setup() after a restart: its delay(1000) returns, the pin is configured
\* and setupOTA() configures the WiFiManager; loop() is entered
SetupDelayDone ==
    /\ pc = "setupDelay"
    /\ pc' = "checkButton"
    /\ Elapse(SETUP_DELAY)
    /\ UNCHANGED <<cmd, buttonLow, buttonPressed, shouldStartConfigPortal,
                   wifiMode, staBegun, link, credSaved, otaRegistered,
                   serverListening, portalSessions, portalTimeout, attempts,
                   connectElapsed, wasConnected, monitorLog, disabled,
                   pressDuration, commandsThisPress, otaState, otaLog>>

\* time passes while an upload is under way or onOTAEnd is in its delay
OtaTick ==
    /\ otaState # "idle"
    /\ \E d \in OtaDeltas : TimeBounded(d) /\ Elapse(d)
    /\ UNCHANGED <<pc, cmd, buttonLow, buttonPressed, shouldStartConfigPortal,
                   wifiMode, staBegun, link, credSaved, otaRegistered,
                   serverListening, portalSessions, portalTimeout, attempts,
                   connectElapsed, wasConnected, monitorLog, disabled,
                   pressDuration, commandsThisPress, otaState, otaLog>>

\* The Update Service is running after a LongHold with no stored credential
\* and a portal session in which a credential was saved and the link came
\* up; the loop has gone round once more and the button is left alone
InitOTA ==
    /\ pc = "checkButton"
    /\ cmd = "None"
    /\ buttonLow = FALSE
    /\ sinceLow = 0
    /\ buttonPressed = FALSE
    /\ sincePress = 0
    /\ shouldStartConfigPortal = FALSE
    /\ wifiMode = "WIFI_STA"
    /\ staBegun = TRUE
    /\ link = TRUE
    /\ credSaved = TRUE
    /\ otaRegistered = 1
    /\ serverListening = TRUE
    /\ portalSessions = 0
    /\ portalTimeout = 0
    /\ portalElapsed = 0
    /\ attempts = 0
    /\ connectElapsed = 2 * MODE_DELAY + CLEANUP_DELAY
    /\ sinceLastWiFiCheck = 0
    /\ wasConnected = TRUE
    /\ monitorLog = "restored"
    /\ disabled = FALSE
    /\ pressDuration = 0
    /\ commandsThisPress = 1
    /\ otaState = "idle"
    /\ otaLog = "none"
    /\ sinceOtaProgress = StampAgeUnknown
    /\ sinceOtaEnd = 0

\* the loop with the button left alone
LoopStep ==
    \/ CheckButtonSame
    \/ HandleOTANoPortal
    \/ WiFiMonitor
    \/ Heartbeat

NextOTA ==
    \/ OnOTAStart
    \/ OnOTAProgress
    \/ OnOTAEndFailure
    \/ OnOTAEndSuccess
    \/ Restart
    \/ SetupDelayDone
    \/ OtaTick
    \/ LinkUp
    \/ LinkDown
    \/ LoopStep

\* the loop keeps running, time passes in onOTAEnd's delay, the restart is
\* taken when the delay has returned, and setup()'s delay returns
SpecOTA ==
    /\ InitOTA /\ [][NextOTA]_vars
    /\ WF_vars(LoopStep) /\ WF_vars(OtaTick) /\ WF_vars(Restart)
    /\ WF_vars(SetupDelayDone)

\* the five provisioning states
ProvStates == {"Idle", "ConnectingSaved", "PortalActive", "ServingUpdates", "Disabled"}

\* C11: the flags and handles always encode one of the five provisioning
\* states, and never Disabled together with anything another state owns: no
\* portal session open, no portal request pending, no Update Service, no
\* connection attempt under way, the radio off
C11_NoImpossibleCombination ==
    /\ ProvState \in ProvStates
    /\ disabled =>
          /\ portalSessions = 0
          /\ ~shouldStartConfigPortal
          /\ ~serverListening /\ otaRegistered = 0
          /\ pc \notin ConnectPcs \cup {"portal", "afterPortal"}
          /\ wifiMode = "WIFI_OFF" /\ ~link

\* Disabled by a ShortPress that took down a running Update Service: the link
\* monitor had seen the link up
C11_Witness ==
    /\ ProvState = "Disabled" /\ cmd = "ShortPress"
    /\ wasConnected /\ credSaved /\ pc = "wifiMonitor"

\* a sampled released edge is being classified in this step
ReleaseClassified ==
    /\ pc = "checkButton" /\ buttonPressed /\ ~buttonLow
    /\ pc' # "checkButton"

\* C12: a release with the held duration d that checkButton computes (the
\* 32-bit difference of millis() and the press stamp) is a LongHold (portal
\* requested) when d >= 3000, a ShortPress (radio disabled) when
\* 50 < d < 3000, and nothing when d <= 50; so 3000 is a LongHold, 51 a
\* ShortPress, 50 nothing
C12_ReleaseClassification ==
    [][ReleaseClassified =>
         /\ pressDuration' = sincePress
         /\ (sincePress < 0 \/ sincePress >= 3000) =>
               (cmd' = "LongHold" /\ shouldStartConfigPortal' /\ ~disabled')
         /\ (50 < sincePress /\ sincePress < 3000) =>
               (cmd' = "ShortPress" /\ disabled' /\ ~shouldStartConfigPortal')
         /\ (0 <= sincePress /\ sincePress <= 50) =>
               (/\ cmd' = "None"
                /\ UNCHANGED <<shouldStartConfigPortal, disabled, wifiMode, link,
                               staBegun, otaRegistered, serverListening,
                               portalSessions>>)]_vars

\* a release after 51 ms has been taken as a ShortPress
C12_Witness ==
    /\ pressDuration = 51 /\ cmd = "ShortPress" /\ disabled
    /\ ~buttonPressed /\ pc = "handleOTA"

\* a checkButton() call that samples the level it saw last time
PollSameLevel ==
    /\ pc = "checkButton" /\ buttonLow = buttonPressed
    /\ pc' # "checkButton"

\* C13: at most one command is issued per sampled press: a classification
\* happens only at a sampled release and ends the press, so the next one
\* needs a new sampled press edge; a poll that samples an unchanged level
\* issues no command and changes nothing
C13_OneCommandPerPress ==
    /\ [](commandsThisPress <= 1)
    /\ [][ReleaseClassified => ~buttonPressed']_vars
    /\ [][commandsThisPress' > commandsThisPress => ReleaseClassified]_vars
    /\ [][PollSameLevel =>
            (/\ cmd' = "None"
             /\ UNCHANGED <<commandsThisPress, buttonPressed, sincePress,
                            shouldStartConfigPortal, disabled, wifiMode, link,
                            staBegun, otaRegistered, serverListening,
                            portalSessions>>)]_vars

\* a ShortPress was issued for the last press, and a later poll that found
\* the button still released issued nothing
C13_Witness ==
    /\ commandsThisPress = 1 /\ disabled /\ ~buttonPressed /\ ~buttonLow
    /\ cmd = "None" /\ pc = "handleOTA"

\* a progress line is printed in this step
ProgressLine == otaLog' = "progress" /\ sinceOtaProgress' = 0 /\ sinceOtaProgress # 0

\* C14: a progress line is printed only when more than 1000 ms have passed
\* since the previous one (the stamp is taken when a line is printed and at
\* no other time), so at most one line is printed per second
C14_ProgressRateLimited ==
    /\ [][ProgressLine => (sinceOtaProgress < 0 \/ sinceOtaProgress > 1000)]_vars
    /\ [][(otaState = "updating" /\ otaState' = "updating"
            /\ sinceOtaProgress' < sinceOtaProgress) => ProgressLine]_vars
    /\ [][(otaLog' = "progress" /\ otaLog # "progress") => ProgressLine]_vars

\* a progress line has just been printed
C14_Witness ==
    /\ otaState = "updating" /\ otaLog = "progress" /\ sinceOtaProgress = 0

\* C15: after onEnd(true) nothing runs but the grace delay and the
\* restart, the loop does not poll in between; after onEnd(false) no restart
C15_RestartWithoutPoll ==
    /\ [][otaState = "rebooting" => (pc' = pc \/ otaState' = "idle")]_vars
    /\ [][(otaLog' = "finished" /\ otaLog # "finished") => otaState' = "rebooting"]_vars
    /\ [][(otaState = "rebooting" /\ otaState' # "rebooting") =>
            sinceOtaEnd >= REBOOT_DELAY]_vars
    /\ [][(otaLog' = "failed" /\ otaLog # "failed") =>
            (otaState' = "idle" /\ UNCHANGED LifecycleVars)]_vars

\* C16: the radio is never powered off while the Update Service or a portal
\* session is still live (a ShortPress stops the Update Service, then the
\* portal, then the radio)
C16_NoRadioOffWhileLive ==
    wifiMode = "WIFI_OFF" => (~serverListening /\ portalSessions = 0)

\* C17: when handleOTA resumes after a portal session that failed to start
\* or ended with no link, the state is Idle and no Update Service is started;
\* and a portal session starts only on a request set by a LongHold, which
\* the session's start consumes
C17_PortalFailureReturnsToIdle ==
    /\ [][(pc = "afterPortal" /\ ~link /\ pc' # pc) =>
            (ProvState' = "Idle" /\ UNCHANGED <<otaRegistered, serverListening>>)]_vars
    /\ [](pc = "afterPortal" => ~shouldStartConfigPortal)
    /\ [][portalSessions' > portalSessions => shouldStartConfigPortal]_vars
    /\ [][(shouldStartConfigPortal' /\ ~shouldStartConfigPortal) =>
            cmd' = "LongHold"]_vars

\* C18: every portal session is started with the timeout of 180 seconds, and
\* is not left open beyond it
C18_PortalTimeout ==
    /\ [](portalSessions > 0 => portalTimeout = 180)
    /\ [][portalSessions' > portalSessions => portalTimeout' = 180]_vars
    /\ [][(portalSessions > 0 /\ portalElapsed' > portalElapsed) =>
            portalElapsed < 180 * 1000]_vars

\* an open session has reached its timeout
C18_Witness ==
    /\ portalSessions = 1 /\ pc = "portal"
    /\ portalTimeout = 180 /\ portalElapsed = 180 * 1000

\* a hold is being classified as a LongHold while the state is Disabled
LongHoldWhileDisabled ==
    /\ ReleaseClassified /\ disabled /\ cmd' = "LongHold"

\* C19: a LongHold while Disabled leaves Disabled for ConnectingSaved with the
\* request pending, and with a stored credential the radio is on in station
\* mode and the connect wait begins; from there, as from Idle, a link found
\* by the connect check gives ServingUpdates, and ConnectingSaved is left
\* only for ServingUpdates or PortalActive, with the radio on
C19_LongHoldFromDisabled ==
    /\ [][LongHoldWhileDisabled =>
            (/\ ~disabled' /\ ProvState' = "ConnectingSaved"
             /\ shouldStartConfigPortal'
             /\ ~serverListening' /\ otaRegistered' = 0
             /\ pc' = "disconnectDelay")]_vars
    /\ [][(pc = "disconnectDelay" /\ pc' # pc) => pc' = "staModeDelay"]_vars
    /\ [][(pc = "staModeDelay" /\ credSaved /\ pc' # pc) =>
            (/\ wifiMode' = "WIFI_STA" /\ staBegun'
             /\ pc' = "connectWait")]_vars
    /\ [][(pc = "connectCheck" /\ link /\ pc' # pc) =>
            ProvState' = "ServingUpdates"]_vars
    /\ [][(/\ ProvState = "ConnectingSaved" /\ ~serverListening
            /\ ProvState' # "ConnectingSaved") =>
            (/\ ProvState' \in {"ServingUpdates", "PortalActive"}
             /\ wifiMode' # "WIFI_OFF")]_vars

\* Disabled, the radio off, and a hold of 3000 ms about to be classified
C19_Witness ==
    /\ ProvState = "Disabled" /\ wifiMode = "WIFI_OFF"
    /\ pc = "checkButton" /\ buttonPressed /\ ~buttonLow
    /\ sincePress >= BUTTON_PRESS_TIME

\* startWiFiConnection() has not run since boot: no LongHold yet
NoLongHoldYet == connectElapsed = 0 /\ pc # "disconnectDelay"

\* no network resource is held
NoNetworkResource ==
    /\ wifiMode = "WIFI_OFF" /\ ~staBegun /\ ~link
    /\ otaRegistered = 0 /\ ~serverListening
    /\ portalSessions = 0 /\ ~shouldStartConfigPortal
    /\ pc \notin ConnectPcs \cup {"portal", "afterPortal"}

\* C20 as stated: from boot until the first LongHold the state is Idle and no
\* network resource is held
C20_IdleUntilLongHold ==
    NoLongHoldYet => (ProvState = "Idle" /\ NoNetworkResource)

\* C20 as amended: from boot until the first LongHold no network resource is
\* held and the state is Idle, or Disabled once a ShortPress has been
\* received; only a LongHold ends this
C20_NoResourceUntilLongHold ==
    /\ [](NoLongHoldYet =>
            (/\ NoNetworkResource
             /\ ProvState \in {"Idle", "Disabled"}))
    /\ [][(NoLongHoldYet /\ ~disabled /\ disabled') => cmd' = "ShortPress"]_vars
    /\ [][(NoLongHoldYet /\ ~NoLongHoldYet') => cmd' = "LongHold"]_vars

\* a ShortPress before any LongHold: Disabled, nothing held
C20_Witness ==
    /\ NoLongHoldYet /\ ProvState = "Disabled" /\ cmd = "ShortPress"
    /\ pc = "heartbeat"

\* C21: a live portal session implies PortalActive and a live Update Service
\* implies ServingUpdates
C21_ResourcesMatchState ==
    /\ portalSessions > 0 => ProvState = "PortalActive"
    /\ serverListening => ProvState = "ServingUpdates"

\* C22: a portal request raised by a LongHold is acted on and cleared by the
\* handleOTA call of the same loop iteration: the flag is set only between
\* checkButton's classification and that call, which starts the session and
\* clears it, and is never set when the loop reaches heartbeat or comes back
\* to checkButton
C22_CommandConsumedSameIteration ==
    /\ [](shouldStartConfigPortal =>
            (/\ cmd = "LongHold"
             /\ pc \in ConnectPcs \cup {"handleOTA"}))
    /\ [][(pc = "checkButton" /\ pc' # pc) =>
            pc' \in {"disconnectDelay", "handleOTA"}]_vars
    /\ [][(pc \in ConnectPcs /\ pc' # pc) =>
            pc' \in ConnectPcs \cup {"handleOTA"}]_vars
    /\ [][(pc = "handleOTA" /\ shouldStartConfigPortal /\ pc' # pc) =>
            (/\ ~shouldStartConfigPortal'
             /\ portalSessions' = portalSessions + 1
             /\ UNCHANGED <<cmd, pressDuration>>)]_vars

\* the portal session opened by the handleOTA call that follows the
\* checkButton call which classified the LongHold
C22_Witness ==
    /\ pc = "portal" /\ portalSessions = 1 /\ ~shouldStartConfigPortal
    /\ cmd = "LongHold" /\ pressDuration = 3000 /\ ~credSaved

\* the link monitor of handleOTA runs in this step
MonitorStep == pc = "wifiMonitor" /\ pc' # pc

\* C23: the link monitor only observes: whether or not it finds the link lost
\* or restored, it leaves the radio mode, the station, the link, the request
\* flag, the portal session, the Update Service and the provisioning state
\* as they are
C23_MonitorOnlyObserves ==
    [][MonitorStep =>
         (/\ UNCHANGED <<wifiMode, staBegun, link, credSaved,
                         shouldStartConfigPortal, portalSessions, portalTimeout,
                         portalElapsed, otaRegistered, serverListening, disabled>>
          /\ ProvState' = ProvState)]_vars

\* the monitor has just reported the link restored
C23_Witness ==
    /\ pc = "heartbeat" /\ monitorLog = "restored" /\ wasConnected /\ link
    /\ sinceLastWiFiCheck = 0 /\ serverListening

\* C24: the saved-credential connect wait takes at most 20 polls of 500 ms
\* (10 s), goes on only while the link is down and fewer than 20 polls have
\* been made, leaves the loop otherwise, and always does leave it
C24_ConnectWaitTerminates ==
    /\ [](attempts <= 20)
    /\ [](pc \in {"connectWait", "connectCheck"} =>
            connectElapsed = 2 * MODE_DELAY + attempts * 500)
    /\ [][(pc = "connectWait" /\ attempts' # attempts) =>
            (/\ ~link /\ attempts < 20
             /\ attempts' = attempts + 1 /\ pc' = "connectWait")]_vars
    /\ [][(pc = "connectWait" /\ pc' # pc) =>
            (pc' = "connectCheck" /\ (link \/ attempts = 20))]_vars
    /\ (pc = "connectWait") ~> (pc = "connectCheck")

\* the wait has given up after the 20th poll, 10 s after WiFi.begin()
C24_Witness ==
    /\ pc = "connectCheck" /\ attempts = 20 /\ ~link
    /\ connectElapsed = 2 * MODE_DELAY + ConnectWindow

\* the monitor prints in this step
MonitorPrints(line) == monitorLog' = line /\ monitorLog # line

\* C25: the link monitor samples only when 5000 ms or more have passed since
\* its last sample; it prints "lost" exactly at a sample that finds the link
\* down after the previous sample found it up, and "restored" exactly at a
\* sample that finds it up after the previous found it down (or none was
\* taken); the last line printed always tells what the last sample found, so
\* the two lines alternate
C25_MonitorLogsEdges ==
    /\ [](monitorLog = "restored" => wasConnected)
    /\ [](monitorLog \in {"none", "lost"} => ~wasConnected)
    /\ [][monitorLog' # monitorLog => MonitorStep]_vars
    /\ [][(MonitorStep /\ (\/ sinceLastWiFiCheck' < sinceLastWiFiCheck
                           \/ wasConnected' # wasConnected
                           \/ monitorLog' # monitorLog)) =>
            (/\ sinceLastWiFiCheck >= 5000
             /\ sinceLastWiFiCheck' = 0
             /\ wasConnected' = link)]_vars
    /\ [][MonitorStep =>
            (/\ MonitorPrints("lost") <=>
                  (sinceLastWiFiCheck >= 5000 /\ wasConnected /\ ~link)
             /\ MonitorPrints("restored") <=>
                  (sinceLastWiFiCheck >= 5000 /\ ~wasConnected /\ link))]_vars

\* "lost" has just been printed, after a "restored"
C25_Witness ==
    /\ pc = "heartbeat" /\ monitorLog = "lost" /\ ~wasConnected /\ ~link
    /\ sinceLastWiFiCheck = 0 /\ ~disabled

\* C26: handleOTA clears the request flag when it starts the portal, so the
\* flag is clear while the session runs and whenever handleOTA has returned;
\* the flag rises only when a LongHold is classified, the failed connect
\* attempt of that same LongHold sets a flag that is already set, and the
\* one session a set flag opens clears it: at most one session per LongHold
C26_FlagClearedBeforePortal ==
    /\ [](pc \in {"portal", "afterPortal", "wifiMonitor", "heartbeat",
                  "checkButton"} => ~shouldStartConfigPortal)
    /\ [][portalSessions' > portalSessions =>
            (/\ shouldStartConfigPortal /\ ~shouldStartConfigPortal'
             /\ portalSessions = 0 /\ pc' = "portal")]_vars
    /\ [][(~shouldStartConfigPortal /\ shouldStartConfigPortal') =>
            (ReleaseClassified /\ cmd' = "LongHold")]_vars
    /\ [][(pc = "connectCheck" /\ ~link /\ pc' # pc) =>
            (/\ shouldStartConfigPortal /\ shouldStartConfigPortal'
             /\ pc' = "cleanupDelay" /\ UNCHANGED portalSessions)]_vars
    /\ [][(pc = "cleanupDelay" /\ pc' # pc) =>
            (/\ shouldStartConfigPortal /\ shouldStartConfigPortal'
             /\ pc' = "handleOTA" /\ UNCHANGED portalSessions)]_vars

\* the session opened after a LongHold whose connect attempt failed: the flag
\* was set by the button handler and again after the 20th poll
C26_Witness ==
    /\ pc = "portal" /\ portalSessions = 1 /\ ~shouldStartConfigPortal
    /\ cmd = "LongHold" /\ credSaved /\ ~link
    /\ connectElapsed = 2 * MODE_DELAY + ConnectWindow + CLEANUP_DELAY

\* a checkButton() call that samples the button pressed
PollWhilePressed == pc = "checkButton" /\ buttonLow /\ pc' # pc

\* C27: a checkButton() call that samples the button pressed issues no
\* command and changes no connectivity state, however long the button has
\* been held; a LongHold is issued only by a call that samples the release
\* of a button it had seen pressed
C27_NoCommandWhilePressed ==
    /\ [][PollWhilePressed =>
            (/\ cmd' = "None" /\ buttonPressed'
             /\ commandsThisPress' <= commandsThisPress
             /\ UNCHANGED <<shouldStartConfigPortal, disabled, wifiMode,
                            staBegun, link, otaRegistered, serverListening,
                            portalSessions>>
             /\ ProvState' = ProvState)]_vars
    /\ [][(cmd' = "LongHold" /\ cmd # "LongHold") =>
            (/\ pc = "checkButton" /\ buttonPressed /\ ~buttonLow
             /\ ~buttonPressed')]_vars
    /\ [](buttonPressed => cmd = "None" \/ pc # "handleOTA")

\* the button has been held for 3000 ms, checkButton has just sampled it
\* still pressed, and nothing has been requested
C27_Witness ==
    /\ pc = "handleOTA" /\ buttonPressed /\ buttonLow /\ heldLong
    /\ sincePress = BUTTON_PRESS_TIME
    /\ cmd = "None" /\ ~shouldStartConfigPortal /\ ProvState = "Idle"

====
